---- MODULE Spec2Model ----
\* Klondike solitaire engine of src/main.py (class Solitaire): the piles, the
\* drag state, the undo history and the pointer handlers.
\*
\* The deck is scaled: the code plays 4 suits x 13 ranks on 7 tableau piles,
\* the model plays 4 suits x NumRanks ranks on NumPiles piles.  Rank names are
\* the first NumRanks-1 names of the code's DECK_ORDER followed by 'K', so the
\* Ace (lowest) and the King (highest) keep their roles.  The win total of 52
\* in check_for_win is the size of the full deck and scales with it.
\*
\* Pointer positions are abstracted to the region they hit.  The regions the
\* handlers test are pairwise disjoint on screen (buttons, stock, waste top,
\* tableau columns, foundation column), and inside one tableau column the
\* top-most-first scan lets a click select any face-up card.
\*
\* pygame delivers MOUSEBUTTONDOWN / MOUSEBUTTONUP for every mouse button and
\* main() dispatches all of them, so a pointer-down can arrive while a drag is
\* held (second button, wheel): the handlers are enabled in every state.
EXTENDS Integers, Sequences, FiniteSets, TLC

VARIABLES tableau, stock, waste, spent, foundations, dragging, move_count,
          history, game_over, event, mark, wild, draws

\* event, mark and wild record the run, not the program: event is the outcome
\* of the last handler that acted; mark follows one undoable action begun with
\* no run held (the state before it, and whether it has been completed and
\* undone); wild counts the player's strays (see MayStray); draws counts the
\* stock clicks that drew a card since the new game while nothing else has
\* acted (-1 once something else has).
vars == <<tableau, stock, waste, spent, foundations, dragging, move_count,
          history, game_over, event, mark, wild, draws>>

\* ---------------------------------------------------------------- bounds
NumRanks == 2
NumPiles == 2
MaxWild == 2
MaxHist == 14
MaxStrayHist == 3

\* ------------------------------------------------------- cards and deck
NoIndex == -1

foundation_suits == [i \in 0..3 |-> <<"H", "D", "C", "S">>[i + 1]]

DECK_ORDER_13 == <<"A", "2", "3", "4", "5", "6", "7", "8", "9", "10", "J", "Q", "K">>

DECK_ORDER == SubSeq(DECK_ORDER_13, 1, NumRanks - 1) \o <<"K">>

Card(val, suit) == [rank |-> val, suit |-> suit]

RECURSIVE Flatten(_)
Flatten(ss) == IF ss = <<>> THEN <<>> ELSE Head(ss) \o Flatten(Tail(ss))

\* create_full_deck before the shuffle: suits outer, values inner
SortedDeck ==
    Flatten([s \in 1..4 |-> [v \in 1..NumRanks |->
                 Card(DECK_ORDER[v], foundation_suits[s - 1])]])

DeckSize == Len(SortedDeck)

get_rank(card) == card.rank

get_suit(card) == card.suit

rank_index(r) == (CHOOSE i \in 1..Len(DECK_ORDER) : DECK_ORDER[i] = r) - 1

is_opposite_color(c1, c2) ==
    LET red_suits == {"H", "D"}
        black_suits == {"C", "S"}
    IN  \/ (get_suit(c1) \in red_suits /\ get_suit(c2) \in black_suits)
        \/ (get_suit(c1) \in black_suits /\ get_suit(c2) \in red_suits)

Last(s) == s[Len(s)]

Front(s) == SubSeq(s, 1, Len(s) - 1)

RECURSIVE Reverse(_)
Reverse(s) == IF s = <<>> THEN <<>> ELSE Reverse(Tail(s)) \o <<Head(s)>>

is_valid_tableau_move(target_up, top_card) ==
    IF target_up = <<>>
    THEN get_rank(top_card) = "K"
    ELSE /\ rank_index(get_rank(top_card)) + 1 = rank_index(get_rank(Last(target_up)))
         /\ is_opposite_color(top_card, Last(target_up))

\* is_valid_foundation_move without its suit test
is_valid_foundation_move_anysuit(foundation_cards, card, suit) ==
    IF foundation_cards = <<>>
    THEN get_rank(card) = "A"
    ELSE rank_index(get_rank(card)) = rank_index(get_rank(Last(foundation_cards))) + 1

is_valid_foundation_move(foundation_cards, card, suit) ==
    IF get_suit(card) # suit
    THEN FALSE
    ELSE IF foundation_cards = <<>>
         THEN get_rank(card) = "A"
         ELSE rank_index(get_rank(card)) = rank_index(get_rank(Last(foundation_cards))) + 1

\* ------------------------------------------------------------ the deals
\* random.shuffle can produce any permutation; the model plays these.
Stride(step, off) ==
    [k \in 1..DeckSize |-> SortedDeck[(((k - 1) * step + off) % DeckSize) + 1]]

\* the sorted deck's cards at the listed positions, then the other cards
RECURSIVE Rest(_, _)
Rest(k, used) ==
    IF k > DeckSize THEN <<>>
    ELSE (IF k \in used THEN <<>> ELSE <<SortedDeck[k]>>) \o Rest(k + 1, used)

Deal(order) ==
    [k \in 1..Len(order) |-> SortedDeck[order[k]]]
        \o Rest(1, {order[k] : k \in 1..Len(order)})

Deals == {Deal(<<2, 1, 4, 3, 5, 7, 6, 8>>), Stride(DeckSize - 1, 1), Stride(1, 0)}

\* setup_tableau: pile i gets i face-down cards and one face-up card
DealStart(i) == (i * (i + 1)) \div 2

Dealt == DealStart(NumPiles)

setup_tableau(deck) ==
    [i \in 0..(NumPiles - 1) |->
        [down |-> SubSeq(deck, DealStart(i) + 1, DealStart(i) + i),
         up   |-> SubSeq(deck, DealStart(i) + i + 1, DealStart(i) + i + 1)]]

NoDrag == <<>>

NoMark == [phase |-> "none", act |-> "none", flip |-> FALSE, st |-> <<>>]

\* Solitaire.__init__ that keeps the drag state of the old game
NewGame_keeps_drag(deck, how) ==
    /\ tableau' = setup_tableau(deck)
    /\ stock' = SubSeq(deck, Dealt + 1, Len(deck))
    /\ waste' = <<>>
    /\ spent' = <<>>
    /\ foundations' = [i \in 0..3 |-> <<>>]
    /\ UNCHANGED dragging
    /\ move_count' = 0
    /\ history' = <<>>
    /\ game_over' = FALSE
    /\ event' = how
    /\ mark' = NoMark
    /\ wild' = 0
    /\ draws' = 0

\* Solitaire.__init__ on a shuffled deck; how names the button that asked
NewGame(deck, how) ==
    /\ tableau' = setup_tableau(deck)
    /\ stock' = SubSeq(deck, Dealt + 1, Len(deck))
    /\ waste' = <<>>
    /\ spent' = <<>>
    /\ foundations' = [i \in 0..3 |-> <<>>]
    /\ dragging' = NoDrag
    /\ move_count' = 0
    /\ history' = <<>>
    /\ game_over' = FALSE
    /\ event' = how
    /\ mark' = NoMark
    /\ wild' = 0
    /\ draws' = 0

Init ==
    \E deck \in Deals :
        /\ tableau = setup_tableau(deck)
        /\ stock = SubSeq(deck, Dealt + 1, Len(deck))
        /\ waste = <<>>
        /\ spent = <<>>
        /\ foundations = [i \in 0..3 |-> <<>>]
        /\ dragging = NoDrag
        /\ move_count = 0
        /\ history = <<>>
        /\ game_over = FALSE
        /\ event = "new"
        /\ mark = NoMark
        /\ wild = 0
        /\ draws = 0

\* ------------------------------------------------------ snapshots / win
save_state ==
    [tableau |-> tableau, stock |-> stock, waste |-> waste, spent |-> spent,
     foundations |-> foundations, move_count |-> move_count,
     game_over |-> game_over]

FoundationTotal(f) == Len(f[0]) + Len(f[1]) + Len(f[2]) + Len(f[3])

\* check_for_win with the total off by one
check_for_win_early(f, g) == IF FoundationTotal(f) = DeckSize - 1 THEN TRUE ELSE g

\* check_for_win on the foundations f, from the flag g
check_for_win(f, g) == IF FoundationTotal(f) = DeckSize THEN TRUE ELSE g

\* --------------------------------------------------- exploration bound
\* Plain play is: clicking the stock while no reachable card fits a
\* foundation (or while the game has seen nothing but stock clicks), and
\* lifting a single card that fits a foundation and dropping it there.
\* Everything else the player does is a stray, and wild counts the strays of
\* the game: an undo, a pointer-down while a run is held, a stock click that
\* passes over a playable card, a lift of a run that fits no foundation, a
\* drop of a playable card anywhere but on a foundation.  The player strays
\* at most MaxWild times per game.  A snapshot is taken only while the stack
\* is below MaxHist, and below MaxStrayHist once the player has strayed or
\* while a run is held.
MayPush == Len(history) < (IF wild = 0 /\ dragging = NoDrag
                           THEN MaxHist ELSE MaxStrayHist)

MayStray == wild < MaxWild

Stray == MayStray /\ wild' = wild + 1

Fits(card) ==
    \E i \in 0..3 :
        is_valid_foundation_move(foundations[i], card, foundation_suits[i])

Playable ==
    \/ waste # <<>> /\ Fits(Last(waste))
    \/ \E i \in 0..(NumPiles - 1) :
           tableau[i].up # <<>> /\ Fits(Last(tableau[i].up))

OnlyDraws == wild = 0 /\ FoundationTotal(foundations) = 0

StockGuard == IF dragging = NoDrag /\ (~Playable \/ OnlyDraws)
              THEN wild' = wild ELSE Stray

LiftGuard(run) == IF dragging = NoDrag /\ Len(run) = 1 /\ Fits(run[1])
                  THEN wild' = wild ELSE Stray

\* a drop that does not end on a foundation
DropGuard(run) == IF Len(run) = 1 /\ Fits(run[1]) THEN Stray ELSE wild' = wild

\* ------------------------------------------------------------- handlers
Snap(s, h) == <<[s |-> s, h |-> h]>>

\* click_stock moving the newest waste card to spent instead of the oldest
click_stock_newest(st, w, sp) ==
    IF st = <<>>
    THEN IF w # <<>> \/ sp # <<>>
         THEN [stock |-> Reverse(sp \o w), waste |-> <<>>, spent |-> <<>>]
         ELSE [stock |-> st, waste |-> w, spent |-> sp]
    ELSE LET card == Last(st) IN
         IF Len(w) = 3
         THEN [stock |-> Front(st), waste |-> Append(Front(w), card),
               spent |-> Append(sp, Last(w))]
         ELSE [stock |-> Front(st), waste |-> Append(w, card), spent |-> sp]

\* click_stock recycling spent and waste without reversing them
click_stock_unreversed(st, w, sp) ==
    IF st = <<>>
    THEN IF w # <<>> \/ sp # <<>>
         THEN [stock |-> sp \o w, waste |-> <<>>, spent |-> <<>>]
         ELSE [stock |-> st, waste |-> w, spent |-> sp]
    ELSE LET card == Last(st) IN
         IF Len(w) = 3
         THEN [stock |-> Front(st), waste |-> Append(Tail(w), card),
               spent |-> Append(sp, Head(w))]
         ELSE [stock |-> Front(st), waste |-> Append(w, card), spent |-> sp]

\* click_stock as a function of the three piles it touches
click_stock(st, w, sp) ==
    IF st = <<>>
    THEN IF w # <<>> \/ sp # <<>>
         THEN [stock |-> Reverse(sp \o w), waste |-> <<>>, spent |-> <<>>]
         ELSE [stock |-> st, waste |-> w, spent |-> sp]
    ELSE LET card == Last(st) IN
         IF Len(w) = 3
         THEN [stock |-> Front(st), waste |-> Append(Tail(w), card),
               spent |-> Append(sp, Head(w))]
         ELSE [stock |-> Front(st), waste |-> Append(w, card), spent |-> sp]

StockEvent == IF stock # <<>> THEN "draw"
              ELSE IF waste # <<>> \/ spent # <<>> THEN "recycle" ELSE "empty"

\* load_state that forgets the foundations
load_state_keep_foundations(state) ==
    /\ tableau' = state.tableau
    /\ stock' = state.stock
    /\ waste' = state.waste
    /\ spent' = state.spent
    /\ game_over' = state.game_over
    /\ UNCHANGED foundations

\* load_state
load_state(state) ==
    /\ tableau' = state.tableau
    /\ stock' = state.stock
    /\ waste' = state.waste
    /\ spent' = state.spent
    /\ foundations' = state.foundations
    /\ game_over' = state.game_over

Max(a, b) == IF a >= b THEN a ELSE b

\* handle_undo decrementing move_count outside its test, without the floor
handle_undo_always_decrements ==
    IF history # <<>>
    THEN /\ history' = Front(history)
         /\ load_state(Last(history))
         /\ move_count' = Last(history).move_count - 1
         /\ UNCHANGED dragging
    ELSE /\ move_count' = move_count - 1
         /\ UNCHANGED <<tableau, stock, waste, spent, foundations, game_over,
                        history, dragging>>

\* handle_undo taking the oldest snapshot instead of the newest
handle_undo_pops_oldest ==
    IF history # <<>>
    THEN /\ history' = Tail(history)
         /\ load_state(Head(history))
         /\ move_count' = Max(0, Head(history).move_count - 1)
         /\ UNCHANGED dragging
    ELSE UNCHANGED <<tableau, stock, waste, spent, foundations, game_over,
                     history, move_count, dragging>>

\* handle_undo without the extra decrement of move_count
handle_undo_no_decrement ==
    IF history # <<>>
    THEN /\ history' = Front(history)
         /\ load_state(Last(history))
         /\ move_count' = Last(history).move_count
         /\ UNCHANGED dragging
    ELSE UNCHANGED <<tableau, stock, waste, spent, foundations, game_over,
                     history, move_count, dragging>>

handle_undo ==
    IF history # <<>>
    THEN /\ history' = Front(history)
         /\ load_state(Last(history))
         /\ move_count' = Max(0, Last(history).move_count - 1)
         /\ UNCHANGED dragging
    ELSE UNCHANGED <<tableau, stock, waste, spent, foundations, game_over,
                     history, move_count, dragging>>

\* handle_mouse_down, game over, on the Play Again button
PlayAgain ==
    /\ game_over
    /\ \E deck \in Deals : NewGame(deck, "again")

\* handle_mouse_down testing the Undo button before the game-over flag
GameOverClick_undoes ==
    /\ game_over
    /\ handle_undo
    /\ event' = "ignored"
    /\ mark' = NoMark
    /\ UNCHANGED <<wild, draws>>

\* handle_mouse_down, game over, anywhere else
GameOverClick ==
    /\ game_over
    /\ event' = "ignored"
    /\ mark' = NoMark
    /\ UNCHANGED <<tableau, stock, waste, spent, foundations, dragging,
                   move_count, history, game_over, wild, draws>>

\* handle_mouse_down on the Undo button
UndoClick ==
    /\ ~game_over
    /\ handle_undo
    /\ event' = IF history # <<>> THEN "undo" ELSE "undo_empty"
    /\ mark' = IF mark.phase = "acted" /\ history # <<>>
               THEN [mark EXCEPT !.phase = "undone"] ELSE NoMark
    /\ Stray
    /\ draws' = -1

\* handle_mouse_down on the Reshuffle button
Reshuffle ==
    /\ ~game_over
    /\ \E deck \in Deals : NewGame(deck, "reshuffle")

\* handle_mouse_down on the stock, returning early when stock, waste and
\* spent are all empty
StockClick_skips_empty ==
    /\ ~game_over
    /\ IF stock = <<>> /\ waste = <<>> /\ spent = <<>>
       THEN UNCHANGED <<history, stock, waste, spent, move_count, game_over>>
       ELSE /\ MayPush
            /\ history' = Append(history, save_state)
            /\ LET r == click_stock(stock, waste, spent) IN
                 /\ stock' = r.stock
                 /\ waste' = r.waste
                 /\ spent' = r.spent
            /\ move_count' = move_count + 1
            /\ game_over' = check_for_win(foundations, game_over)
    /\ event' = StockEvent
    /\ mark' = NoMark
    /\ StockGuard
    /\ draws' = IF draws >= 0 /\ stock # <<>> /\ dragging = NoDrag
                 THEN draws + 1 ELSE -1
    /\ UNCHANGED <<tableau, foundations, dragging>>

\* handle_mouse_down on the stock
StockClick ==
    /\ ~game_over
    /\ MayPush
    /\ history' = Append(history, save_state)
    /\ LET r == click_stock(stock, waste, spent) IN
         /\ stock' = r.stock
         /\ waste' = r.waste
         /\ spent' = r.spent
    /\ move_count' = move_count + 1
    /\ game_over' = check_for_win(foundations, game_over)
    /\ event' = StockEvent
    /\ mark' = IF dragging = NoDrag
               THEN [phase |-> "acted", act |-> StockEvent, flip |-> FALSE,
                     st |-> Snap(save_state, history)]
               ELSE NoMark
    /\ StockGuard
    /\ draws' = IF draws >= 0 /\ stock # <<>> /\ dragging = NoDrag
                 THEN draws + 1 ELSE -1
    /\ UNCHANGED <<tableau, foundations, dragging>>

\* handle_mouse_down on the top card of the waste, lifting without a snapshot
LiftWaste_no_snapshot ==
    /\ ~game_over
    /\ waste # <<>>
    /\ waste' = Front(waste)
    /\ dragging' = <<"waste", <<Last(waste)>>, NoIndex>>
    /\ event' = "lift"
    /\ mark' = IF dragging = NoDrag
               THEN [phase |-> "lifted", act |-> "lift", flip |-> FALSE,
                     st |-> Snap(save_state, history)]
               ELSE NoMark
    /\ LiftGuard(dragging'[2])
    /\ draws' = -1
    /\ UNCHANGED <<tableau, stock, spent, foundations, move_count, game_over,
                   history>>

\* handle_mouse_down on the top card of the waste
LiftWaste ==
    /\ ~game_over
    /\ waste # <<>>
    /\ MayPush
    /\ history' = Append(history, save_state)
    /\ waste' = Front(waste)
    /\ dragging' = <<"waste", <<Last(waste)>>, NoIndex>>
    /\ event' = "lift"
    /\ mark' = IF dragging = NoDrag
               THEN [phase |-> "lifted", act |-> "lift", flip |-> FALSE,
                     st |-> Snap(save_state, history)]
               ELSE NoMark
    /\ LiftGuard(dragging'[2])
    /\ draws' = -1
    /\ UNCHANGED <<tableau, stock, spent, foundations, move_count, game_over>>

\* handle_mouse_down on face-up card cindex of tableau pile i
LiftTableau(i, cindex) ==
    /\ ~game_over
    /\ cindex < Len(tableau[i].up)
    /\ MayPush
    /\ history' = Append(history, save_state)
    /\ tableau' = [tableau EXCEPT ![i].up = SubSeq(@, 1, cindex)]
    /\ dragging' = <<"tableau",
                     SubSeq(tableau[i].up, cindex + 1, Len(tableau[i].up)), i>>
    /\ event' = "lift"
    /\ mark' = IF dragging = NoDrag
               THEN [phase |-> "lifted", act |-> "lift", flip |-> FALSE,
                     st |-> Snap(save_state, history)]
               ELSE NoMark
    /\ LiftGuard(dragging'[2])
    /\ draws' = -1
    /\ UNCHANGED <<stock, waste, spent, foundations, move_count, game_over>>

\* handle_mouse_down, playing, on no button, pile or card
MissClick ==
    /\ ~game_over
    /\ UNCHANGED vars

\* on_drop_success, applied to the tableau tab and foundations f that the
\* drop has already extended
on_drop_success(source, origin_index, tab, f) ==
    /\ tableau' =
         IF /\ source = "tableau"
            /\ tab[origin_index].up = <<>>
            /\ tab[origin_index].down # <<>>
         THEN [tab EXCEPT ![origin_index] =
                  [down |-> Front(@.down), up |-> <<Last(@.down)>>]]
         ELSE tab
    /\ foundations' = f
    /\ move_count' = move_count + 1
    /\ game_over' = check_for_win(f, game_over)
    /\ UNCHANGED waste

\* on_drop_fail giving the run back top card first
on_drop_fail_reversed(source, subpile, origin_index) ==
    /\ IF source = "waste"
       THEN waste' = waste \o Reverse(subpile) /\ UNCHANGED tableau
       ELSE /\ tableau' = [tableau EXCEPT ![origin_index].up = @ \o Reverse(subpile)]
            /\ UNCHANGED waste
    /\ UNCHANGED <<foundations, move_count, game_over>>

on_drop_fail(source, subpile, origin_index) ==
    /\ IF source = "waste"
       THEN waste' = waste \o subpile /\ UNCHANGED tableau
       ELSE /\ tableau' = [tableau EXCEPT ![origin_index].up = @ \o subpile]
            /\ UNCHANGED waste
    /\ UNCHANGED <<foundations, move_count, game_over>>

Dests == {<<"foundation", i>> : i \in 0..3}
           \cup {<<"tableau", i>> : i \in 0..(NumPiles - 1)}
           \cup {<<"none", NoIndex>>}

FoundationDrop(dest) ==
    /\ dragging # NoDrag
    /\ Len(dragging[2]) = 1
    /\ dest[1] = "foundation"
    /\ is_valid_foundation_move(foundations[dest[2]], dragging[2][1],
                                foundation_suits[dest[2]])

TableauDrop(dest) ==
    /\ dragging # NoDrag
    /\ ~FoundationDrop(dest)
    /\ dest[1] = "tableau"
    /\ is_valid_tableau_move(tableau[dest[2]].up, dragging[2][1])

\* handle_mouse_up with a run held, released on dest
MouseUp(dest) ==
    /\ dragging # NoDrag
    /\ LET source == dragging[1]
           subpile == dragging[2]
           origin_index == dragging[3]
           top_card == subpile[1]
       IN  IF FoundationDrop(dest)
           THEN /\ on_drop_success(source, origin_index, tableau,
                       [foundations EXCEPT ![dest[2]] = Append(@, top_card)])
                /\ event' = "found"
                /\ wild' = wild
           ELSE IF TableauDrop(dest)
           THEN /\ on_drop_success(source, origin_index,
                       [tableau EXCEPT ![dest[2]].up = @ \o subpile],
                       foundations)
                /\ event' = "placed"
                /\ DropGuard(subpile)
           ELSE /\ on_drop_fail(source, subpile, origin_index)
                /\ event' = "returned"
                /\ DropGuard(subpile)
    /\ dragging' = NoDrag
    /\ mark' = IF mark.phase = "lifted"
               THEN [mark EXCEPT !.phase = "acted", !.act = event',
                                 !.flip = \E i \in 0..(NumPiles - 1) :
                                     Len(tableau'[i].down) < Len(tableau[i].down)]
               ELSE NoMark
    /\ draws' = -1
    /\ UNCHANGED <<stock, spent, history>>

\* handle_mouse_up with no run held
IdleMouseUp ==
    /\ dragging = NoDrag
    /\ UNCHANGED vars

Next ==
    \/ PlayAgain
    \/ GameOverClick
    \/ UndoClick
    \/ Reshuffle
    \/ StockClick
    \/ LiftWaste
    \/ \E i \in 0..(NumPiles - 1) : \E cindex \in 0..(DeckSize - 1) :
           LiftTableau(i, cindex)
    \/ MissClick
    \/ \E dest \in Dests : MouseUp(dest)
    \/ IdleMouseUp

Spec == Init /\ [][Next]_vars

\* ------------------------------------------------------------ properties
DeckSet == {SortedDeck[k] : k \in 1..DeckSize}

RECURSIVE FlattenPiles(_, _)
FlattenPiles(tab, n) ==
    IF n = 0 THEN <<>>
    ELSE FlattenPiles(tab, n - 1) \o tab[n - 1].down \o tab[n - 1].up

DragRun(d) == IF d = NoDrag THEN <<>> ELSE d[2]

\* every card held by a pile
InPiles(st, w, sp, tab, f) ==
    st \o w \o sp \o FlattenPiles(tab, NumPiles) \o f[0] \o f[1] \o f[2] \o f[3]

Count(c, seq) == Cardinality({k \in 1..Len(seq) : seq[k] = c})

EverywhereNow == InPiles(stock, waste, spent, tableau, foundations) \o DragRun(dragging)

\* C1: in every reachable state the cards in stock, waste, spent, the tableau
\* (face-down and face-up), the foundations and the held run are exactly the
\* deck, each card once.
C1_CardConservation ==
    /\ Len(EverywhereNow) = DeckSize
    /\ \A c \in DeckSet : Count(c, EverywhereNow) = 1

\* C2: every foundation holds exactly Ace, 2, ... up to its top rank of its
\* own suit (H, D, C, S in that order).
C2_FoundationMonotonic ==
    \A i \in 0..3 :
        /\ Len(foundations[i]) <= NumRanks
        /\ \A k \in 1..Len(foundations[i]) :
               foundations[i][k] = Card(DECK_ORDER[k], foundation_suits[i])

C2_Witness ==
    /\ event = "found"
    /\ \E i \in 0..3 : Len(foundations[i]) >= 2
    /\ \E j \in 0..3 : foundations[j] = <<>>

\* a face-up sequence is a chain: each card one rank below and of opposite
\* colour to the card beneath it
IsChain(up) ==
    \A k \in 1..(Len(up) - 1) :
        /\ rank_index(get_rank(up[k + 1])) + 1 = rank_index(get_rank(up[k]))
        /\ is_opposite_color(up[k + 1], up[k])

\* C3: with no run held, the face-up sequence of every tableau pile is empty,
\* a single card, or a descending chain of alternating colour.
C3_TableauRunsValid ==
    dragging = NoDrag => \A i \in 0..(NumPiles - 1) : IsChain(tableau[i].up)

\* C4: gameOver is true exactly when the foundations hold the whole deck.
C4_WinExact ==
    game_over <=> (FoundationTotal(foundations) = DeckSize)

C4_Witness ==
    /\ game_over
    /\ event = "found"
    /\ FoundationTotal(foundations) = DeckSize

\* the piles after a drop hold what they held before plus the run, and the
\* run went to one pile: the destination (success) or the origin (returned)
RunAppended(old, new, run) == new = old \o run

DropSuccess(dest) ==
    /\ \/ /\ FoundationDrop(dest)
          /\ RunAppended(foundations[dest[2]], foundations'[dest[2]], dragging[2])
       \/ /\ TableauDrop(dest)
          /\ RunAppended(tableau[dest[2]].up, tableau'[dest[2]].up, dragging[2])
    /\ move_count' = move_count + 1

DropReturned ==
    /\ move_count' = move_count
    /\ IF dragging[1] = "waste"
       THEN RunAppended(waste, waste', dragging[2])
       ELSE RunAppended(tableau[dragging[3]].up, tableau'[dragging[3]].up,
                        dragging[2])

PilesNext == InPiles(stock', waste', spent', tableau', foundations')

\* C5: every pointer-up with a run held ends in success or in return, never
\* both; the drag state is cleared; afterwards every card of the run is in
\* exactly one pile.
C5_NoLimbo ==
    [][\A dest \in Dests :
          MouseUp(dest) =>
              /\ DropSuccess(dest) # DropReturned
              /\ dragging' = NoDrag
              /\ \A k \in 1..Len(dragging[2]) : Count(dragging[2][k], PilesNext) = 1
      ]_vars

\* the live piles and flags equal the snapshot s
SameCards(s) ==
    /\ tableau = s.tableau
    /\ stock = s.stock
    /\ waste = s.waste
    /\ spent = s.spent
    /\ foundations = s.foundations
    /\ game_over = s.game_over

\* the piles and flags after the step equal the snapshot s
SameCardsNext(s) ==
    /\ tableau' = s.tableau
    /\ stock' = s.stock
    /\ waste' = s.waste
    /\ spent' = s.spent
    /\ foundations' = s.foundations
    /\ game_over' = s.game_over

DropFails(dest) ==
    /\ dragging # NoDrag
    /\ ~FoundationDrop(dest)
    /\ ~TableauDrop(dest)
    /\ MouseUp(dest)

C7_UndoReverts ==
    mark.phase = "undone" =>
        /\ SameCards(mark.st[1].s)
        /\ history = mark.st[1].h

C7_Witness ==
    /\ mark.phase = "undone"
    /\ mark.act \in {"found", "placed"}
    /\ mark.flip

\* C8: Undo on an empty history changes no pile, no foundation, not
\* moveCount, gameOver, the drag state or the history.
C8_UndoEmptyNoOp ==
    [][(UndoClick /\ history = <<>>) =>
          UNCHANGED <<tableau, stock, waste, spent, foundations, dragging,
                      move_count, history, game_over>>
      ]_vars

C8_Witness ==
    /\ event = "undo_empty"
    /\ history = <<>>
    /\ dragging # NoDrag

\* C9: Undo on a non-empty history pops the newest snapshot, installs it and
\* leaves moveCount at max(0, m - 1) for the snapshot's moveCount m; moveCount
\* is never negative.
C9_UndoMoveCount ==
    /\ [](move_count >= 0)
    /\ [][(UndoClick /\ history # <<>>) =>
             /\ history' = Front(history)
             /\ SameCardsNext(Last(history))
             /\ move_count' = Max(0, Last(history).move_count - 1)
         ]_vars

C9_Witness ==
    /\ event = "undo"
    /\ move_count >= 2

\* the four cards a fresh game draws first, in the order drawn
FirstDrawn(k) == LET st0 == history[1].stock IN st0[Len(st0) - k + 1]

FourDraws == draws = 4

\* C10: a stock click on a non-empty stock moves the last card of stock to
\* the end of waste; a waste of 3 first gives its first card to the end of
\* spent; tableau and foundations stay.  Four draws from a fresh game leave
\* waste = [C2, C3, C4] and spent = [C1].
C10_DrawStep ==
    /\ [](FourDraws =>
             /\ waste = <<FirstDrawn(2), FirstDrawn(3), FirstDrawn(4)>>
             /\ spent = <<FirstDrawn(1)>>)
    /\ [][(StockClick /\ stock # <<>>) =>
             /\ stock' = Front(stock)
             /\ waste' = (IF Len(waste) = 3 THEN Tail(waste) ELSE waste)
                            \o <<Last(stock)>>
             /\ spent' = (IF Len(waste) = 3 THEN Append(spent, Head(waste))
                          ELSE spent)
             /\ UNCHANGED <<tableau, foundations>>
         ]_vars

C10_Witness ==
    /\ FourDraws
    /\ event = "draw"
    /\ Len(waste) = 3
    /\ Len(spent) = 1

\* a game that has seen nothing but stock clicks, at rest
PureDraws == OnlyDraws /\ dragging = NoDrag /\ history # <<>>

StockSize0 == Len(history[1].stock)

Recycles == StockClick /\ stock = <<>> /\ (waste # <<>> \/ spent # <<>>)

\* C11: a stock click on an empty stock with cards in waste or spent draws no
\* card, makes stock the reverse of spent-then-waste and empties both, so the
\* next card drawn is the oldest drawn one and the draws after a recycle
\* replay the cards in the order they were first drawn.
C11_Recycle ==
    /\ [][Recycles =>
             /\ stock' = Reverse(spent \o waste)
             /\ Last(stock') = Head(spent \o waste)
             /\ waste' = <<>>
             /\ spent' = <<>>
             /\ UNCHANGED <<tableau, foundations>>
         ]_vars
    /\ [](PureDraws =>
             /\ Len(history) = StockSize0 + 1 => stock = history[1].stock
             /\ \A k \in 1..StockSize0 :
                    Len(history) = StockSize0 + 1 + k => Last(waste) = FirstDrawn(k))

C11_Witness ==
    /\ PureDraws
    /\ event = "draw"
    /\ Len(history) = StockSize0 + 3
    /\ history[StockSize0 + 1].spent # <<>>
    /\ Len(history[StockSize0 + 1].waste) = 3

NoCards == stock = <<>> /\ waste = <<>> /\ spent = <<>>

\* C12: every stock click while playing adds 1 to moveCount and pushes exactly
\* one snapshot, whether it draws, recycles or finds stock, waste and spent
\* empty; in the last case no pile and no foundation changes.
C12_StockClickCounts ==
    [][StockClick =>
          /\ move_count' = move_count + 1
          /\ Len(history') = Len(history) + 1
          /\ Front(history') = history
          /\ Last(history') = save_state
          /\ NoCards => UNCHANGED <<tableau, stock, waste, spent, foundations>>
      ]_vars

C12_Witness ==
    /\ event = "empty"
    /\ NoCards
    /\ history # <<>>
    /\ SameCards(Last(history))
    /\ move_count = Last(history).move_count + 1

\* a step of one of the two lifting branches
Lifts ==
    /\ event' = "lift"
    /\ \/ LiftWaste
       \/ \E i \in 0..(NumPiles - 1) : \E cindex \in 0..(DeckSize - 1) :
              LiftTableau(i, cindex)

\* a pointer-up with a run held
Drops ==
    /\ dragging # NoDrag
    /\ dragging' = NoDrag
    /\ \E dest \in Dests : MouseUp(dest)

\* C13: a pointer-down on a liftable card while a run is held is refused: the
\* held run stays, no pile loses a card and no snapshot is pushed.
C13_OneDragAtATime ==
    [][(Lifts /\ dragging # NoDrag) =>
          UNCHANGED <<dragging, tableau, stock, waste, spent, foundations,
                      history>>
      ]_vars

\* a freshly dealt game
Fresh ==
    /\ \A i \in 0..(NumPiles - 1) :
           Len(tableau[i].down) = i /\ Len(tableau[i].up) = 1
    /\ Len(stock) = DeckSize - Dealt
    /\ waste = <<>>
    /\ spent = <<>>
    /\ \A i \in 0..3 : foundations[i] = <<>>
    /\ move_count = 0
    /\ ~game_over
    /\ dragging = NoDrag
    /\ history = <<>>
    /\ C1_CardConservation

\* C14: Reshuffle while playing and Play Again after a win, with or without a
\* run held, give a freshly dealt game: pile i has i face-down cards and one
\* face-up card, stock holds the rest, waste, spent and foundations are empty,
\* moveCount = 0, gameOver is false, no run is held and the history is empty;
\* an Undo right after it changes nothing.  (event names the button while
\* the new game is untouched.)
C14_NewGameResets ==
    /\ [](event \in {"reshuffle", "again"} => Fresh)
    /\ [][(UndoClick /\ event \in {"reshuffle", "again"}) =>
             UNCHANGED <<tableau, stock, waste, spent, foundations, dragging,
                         move_count, history, game_over>>
         ]_vars

C14_Witness ==
    /\ event = "again"
    /\ Fresh

\* C15: once gameOver is true, every pointer-down except Play Again and every
\* pointer-up leaves the piles, the foundations, moveCount, the history, the
\* drag state and gameOver as they are; gameOver stays true until a new game.
C15_GameOverTerminal ==
    [][(game_over /\ ~PlayAgain) =>
          UNCHANGED <<tableau, stock, waste, spent, foundations, dragging,
                      move_count, history, game_over>>
      ]_vars

C15_Witness ==
    /\ game_over
    /\ event = "ignored"
    /\ history # <<>>

\* the handlers other than Undo and the new-game buttons
OtherHandlers ==
    \/ GameOverClick
    \/ StockClick
    \/ Lifts
    \/ MissClick
    \/ Drops
    \/ IdleMouseUp

\* C16: the history is a stack of snapshots: every handler other than Undo and
\* a new game leaves the entries it finds as they are and pushes at most one
\* entry on top, whatever it does to the live piles; Undo removes the top
\* entry and leaves the entries below as they are.
C16_HistoryStack ==
    /\ [][OtherHandlers =>
             \/ history' = history
             \/ /\ Len(history') = Len(history) + 1
                /\ Front(history') = history
                /\ Last(history') = save_state
         ]_vars
    /\ [][UndoClick =>
             history' = (IF history = <<>> THEN history ELSE Front(history))
         ]_vars

C16_Witness ==
    /\ event = "undo"
    /\ Len(history) >= 2
    /\ history[1] # history[2]
    /\ ~SameCards(Last(history))

\* pile i shows no card but hides some
Unflipped(i) == tableau[i].up = <<>> /\ tableau[i].down # <<>>

\* C17: a successful drop whose origin is a tableau pile left with no face-up
\* card and some face-down cards turns exactly the top face-down card face
\* up; so with no run held no tableau pile has an empty face-up sequence and a
\* non-empty face-down sequence.
C17_AutoFlip ==
    /\ [][\A dest \in Dests :
             (MouseUp(dest) /\ (FoundationDrop(dest) \/ TableauDrop(dest))
                 /\ dragging[1] = "tableau" /\ Unflipped(dragging[3])
                 /\ dest # <<"tableau", dragging[3]>>) =>
                 /\ tableau'[dragging[3]].up = <<Last(tableau[dragging[3]].down)>>
                 /\ tableau'[dragging[3]].down = Front(tableau[dragging[3]].down)
         ]_vars
    /\ [](dragging = NoDrag => \A i \in 0..(NumPiles - 1) : ~Unflipped(i))

\* C18: the waste never holds more than 3 cards.
C18_WasteCapacity == Len(waste) <= 3

SnapCards(s) == InPiles(s.stock, s.waste, s.spent, s.tableau, s.foundations)

\* C19: every snapshot is pushed while no run is held, records gameOver =
\* false and holds the whole deck, each card once, in its own piles.
C19_SnapshotsComplete ==
    /\ [][Len(history') > Len(history) => dragging = NoDrag]_vars
    /\ [](\A k \in 1..Len(history) :
             /\ ~history[k].game_over
             /\ Len(SnapCards(history[k])) = DeckSize
             /\ \A c \in DeckSet : Count(c, SnapCards(history[k])) = 1)

\* a lift begun with no run held whose drop was returned
ReturnedLift == mark.act = "returned" /\ mark.phase \in {"acted", "undone"}

\* C20: every lift pushes exactly one snapshot and no drop removes it; after a
\* lift and its returned drop the history is one entry longer than before the
\* lift while the piles and moveCount are as before; the next Undo takes that
\* entry, changes no pile or foundation and leaves moveCount at max(0, m - 1)
\* for the moveCount m before the lift.
C20_LiftSnapshotStays ==
    /\ [][Lifts =>
             /\ Len(history') = Len(history) + 1
             /\ Front(history') = history
             /\ Last(history') = save_state
         ]_vars
    /\ [][Drops => history' = history]_vars
    /\ []((ReturnedLift /\ mark.phase = "acted") =>
             /\ history = Append(mark.st[1].h, mark.st[1].s)
             /\ SameCards(mark.st[1].s)
             /\ move_count = mark.st[1].s.move_count)
    /\ []((ReturnedLift /\ mark.phase = "undone") =>
             /\ history = mark.st[1].h
             /\ SameCards(mark.st[1].s)
             /\ move_count = Max(0, mark.st[1].s.move_count - 1))

C20_Witness ==
    /\ ReturnedLift
    /\ mark.phase = "undone"
    /\ event = "undo"
    /\ history # <<>>
    /\ mark.st[1].s.move_count >= 1
    /\ move_count = mark.st[1].s.move_count - 1
    /\ ~SameCards(Last(history))

====
